---- MODULE Spec2Model ----
(***************************************************************************)
(* State-machine model of two view components of the document editor:      *)
(*   - PaginatedDocumentList (app/components/PaginatedDocumentList.js),    *)
(*     the paginated loader;                                               *)
(*   - DocumentScene (app/scenes/Document/Document.js), the document       *)
(*     scene controller.                                                   *)
(* Each asynchronous function is split at its awaits: the part up to the   *)
(* await is one action, the continuation after the awaited promise         *)
(* settles is another.  Promises settle in any order.                      *)
(***************************************************************************)
EXTENDS Integers, Sequences, FiniteSets, TLC

VARIABLES
    \* ---- PaginatedDocumentList ----
    mounted,        \* componentDidMount has run
    fetchProp,      \* identity of this.props.fetch
    isLoaded,       \* @observable isLoaded
    isFetching,     \* @observable isFetching
    offset,         \* @observable offset
    allowLoadMore,  \* @observable allowLoadMore
    pending,        \* calls of this.props.fetch whose promise has not settled
    fullPages,      \* history: fetches that resolved with exactly one full page
    lev,            \* history: the loader operation that made the last step
    \* ---- DocumentScene ----
    props,          \* this.props: route, auth and policy facts of the scene
    document,       \* @observable document ("none" while undefined)
    revision,       \* @observable revision ("none" while undefined)
    isUploading,    \* @observable isUploading
    isSaving,       \* @observable isSaving
    isPublishing,   \* @observable isPublishing
    isDirty,        \* @observable isDirty
    isEmpty,        \* @observable isEmpty
    error,          \* @observable error (TRUE once an Error is stored)
    doc,            \* the Document entity of the store: text, id, isSaving, ...
    getEditorText,  \* this.getEditorText: unset, or the text it returns
    dirtyTimer,     \* the debounced updateIsDirty has a call pending
    autosaveTimer,  \* the debounced autosave has a call pending
    loads,          \* loadDocument calls standing at one of their awaits
    loadsStarted,   \* number of loadDocument calls made so far
    saves,          \* onSave calls standing at await document.save(options)
    liveTimers,     \* setTimeout(document.view) timers scheduled and not run
    viewTimeout,    \* this.viewTimeout (0 while unset)
    unmounted,      \* componentWillUnmount has run
    nav,            \* the last navigation pushed or replaced on history
    uiActive,       \* ui.setActiveDocument has been called
    sev             \* history: the scene operation that made the last step

loaderVars ==
    <<mounted, fetchProp, isLoaded, isFetching, offset, allowLoadMore,
      pending, fullPages, lev>>

sceneVars ==
    <<props, document, revision, isUploading, isSaving, isPublishing, isDirty,
      isEmpty, error, doc, getEditorText, dirtyTimer, autosaveTimer, loads,
      loadsStarted, saves, liveTimers, viewTimeout, unmounted, nav, uiActive,
      sev>>

vars == <<loaderVars, sceneVars>>

----------------------------------------------------------------------------
(* Bounds of the model *)

\* offset is followed up to MaxPages full pages
MaxPages == 2

\* at most MaxPending calls of props.fetch are outstanding at once
MaxPending == 2

\* loadDocument is called at most MaxLoads times (the constructor's call
\* included)
MaxLoads == 2

\* at most MaxSaves onSave calls stand at their await at once
MaxSaves == 2

----------------------------------------------------------------------------
(* PaginatedDocumentList *)

\* page size, imported from stores/BaseStore
DEFAULT_PAGINATION_LIMIT == 10

\* the functions the parent may pass as the fetch prop
FetchFns == {"fetchA", "fetchB"}

\* what a call of props.fetch may resolve with: a page of len items (the
\* request carries limit = DEFAULT_PAGINATION_LIMIT), or no value at all
FetchResults ==
    [kind : {"page"},
     len : {0, 1, DEFAULT_PAGINATION_LIMIT - 1, DEFAULT_PAGINATION_LIMIT}]
    \cup {[kind |-> "none", len |-> 0]}

RemoveAt(s, i) == SubSeq(s, 1, i - 1) \o SubSeq(s, i + 1, Len(s))

LoaderEvent(op, kind, len) == [op |-> op, kind |-> kind, len |-> len]

\* variant of IsLastPage: a full page also counts as the last one
IsLastPage_FullPageEnds(results) ==
    /\ results.kind # "none"
    /\ (results.len = 0 \/ results.len <= DEFAULT_PAGINATION_LIMIT)

\* the condition of fetchResults that marks the end of the data
IsLastPage(results) ==
    /\ results.kind # "none"
    /\ (results.len = 0 \/ results.len < DEFAULT_PAGINATION_LIMIT)

\* fetchResults up to its await: flag the fetch and call props.fetch (fn,
\* the fetch prop at the time of the call) with the current offset
fetchResultsCall(fn) ==
    /\ isFetching' = TRUE
    /\ pending' = Append(pending, [fn |-> fn, offset |-> offset])
    /\ UNCHANGED <<isLoaded, offset, allowLoadMore, fullPages>>

LoaderInit ==
    /\ mounted = FALSE
    /\ fetchProp \in FetchFns
    /\ isLoaded = FALSE
    /\ isFetching = FALSE
    /\ offset = 0
    /\ allowLoadMore = TRUE
    /\ pending = <<>>
    /\ fullPages = 0
    /\ lev = LoaderEvent("init", "none", 0)

componentDidMount ==
    /\ ~mounted
    /\ mounted' = TRUE
    /\ UNCHANGED fetchProp
    /\ fetchResultsCall(fetchProp)
    /\ lev' = LoaderEvent("mount", "none", 0)

\* the parent re-renders the list, with the same or another fetch prop
componentDidUpdate ==
    /\ mounted
    /\ \E f \in FetchFns :
        /\ fetchProp' = f
        /\ IF f # fetchProp
           THEN /\ Len(pending) < MaxPending
                /\ fetchResultsCall(f)
           ELSE UNCHANGED <<isLoaded, isFetching, offset, allowLoadMore,
                            pending, fullPages>>
    /\ UNCHANGED mounted
    /\ lev' = LoaderEvent("update", "none", 0)

\* variant of loadMoreResults: the guard leaves out isFetching
loadMoreResults_NoFetchingGuard ==
    /\ mounted
    /\ IF ~allowLoadMore
       THEN UNCHANGED <<isLoaded, isFetching, offset, allowLoadMore,
                        pending, fullPages>>
       ELSE /\ Len(pending) < MaxPending
            /\ fetchResultsCall(fetchProp)
    /\ UNCHANGED <<mounted, fetchProp>>
    /\ lev' = LoaderEvent("loadMore", "none", 0)

\* the Waypoint's onEnter
loadMoreResults ==
    /\ mounted
    /\ IF ~allowLoadMore \/ isFetching
       THEN UNCHANGED <<isLoaded, isFetching, offset, allowLoadMore,
                        pending, fullPages>>
       ELSE /\ Len(pending) < MaxPending
            /\ fetchResultsCall(fetchProp)
    /\ UNCHANGED <<mounted, fetchProp>>
    /\ lev' = LoaderEvent("loadMore", "none", 0)

\* fetchResults after its await, when the promise resolved with results
fetchResultsResolved(i, results) ==
    /\ IF IsLastPage(results)
       THEN /\ allowLoadMore' = FALSE
            /\ UNCHANGED offset
       ELSE /\ offset + DEFAULT_PAGINATION_LIMIT
                 <= MaxPages * DEFAULT_PAGINATION_LIMIT
            /\ offset' = offset + DEFAULT_PAGINATION_LIMIT
            /\ UNCHANGED allowLoadMore
    /\ isLoaded' = TRUE
    /\ isFetching' = FALSE
    /\ pending' = RemoveAt(pending, i)
    /\ fullPages' =
         IF results.kind = "page" /\ results.len = DEFAULT_PAGINATION_LIMIT
         THEN fullPages + 1 ELSE fullPages
    /\ UNCHANGED <<mounted, fetchProp>>
    /\ lev' = LoaderEvent("resolve", results.kind, results.len)

FetchResolved ==
    \E i \in 1..Len(pending) : \E results \in FetchResults :
        fetchResultsResolved(i, results)

\* the promise rejected: the await throws and the rest of fetchResults is
\* skipped
FetchRejected ==
    \E i \in 1..Len(pending) :
        /\ pending' = RemoveAt(pending, i)
        /\ UNCHANGED <<mounted, fetchProp, isLoaded, isFetching, offset,
                       allowLoadMore, fullPages>>
        /\ lev' = LoaderEvent("reject", "none", 0)

----------------------------------------------------------------------------
(* DocumentScene *)

AUTOSAVE_DELAY == 3000
IS_DIRTY_DELAY == 500

\* Texts are sequences of characters.
Whitespace == {" ", "\n", "\t"}

RECURSIVE TrimStart(_)
TrimStart(s) ==
    IF s # <<>> /\ Head(s) \in Whitespace THEN TrimStart(Tail(s)) ELSE s

RECURSIVE TrimEnd(_)
TrimEnd(s) ==
    IF s # <<>> /\ s[Len(s)] \in Whitespace
    THEN TrimEnd(SubSeq(s, 1, Len(s) - 1))
    ELSE s

\* String.prototype.trim
Trim(s) == TrimEnd(TrimStart(s))

\* '#', the text of a document with an empty title only
Hash == <<"#">>

HashPadded == <<" ", "#", "\n">>
Title == <<"#", " ", "T">>
TitleNewline == <<"#", " ", "T", "\n">>
TitleBody == <<"#", " ", "T", "\n", "B">>

\* the texts the editor may report
EditorTexts == {Hash, Title, TitleNewline, TitleBody}

\* this.getEditorText before the first onChange
NoGetter == [set |-> FALSE, text |-> <<>>]

Getter(text) == [set |-> TRUE, text |-> text]

\* this.props of a scene: the route (edit path, revision id, share id,
\* move sub-route, whether the path is the document's canonical one) and
\* whether a user is signed in
Route(editPath, revisionId, shareId, user, isMove, canonical) ==
    [editPath |-> editPath, revisionId |-> revisionId, shareId |-> shareId,
     user |-> user, isMove |-> isMove, canonical |-> canonical]

\* a Document entity of the store
DocumentEntity(text, hasId, published, archived) ==
    [text |-> text, hasId |-> hasId, published |-> published,
     archived |-> archived, isSaving |-> FALSE]

PublishedDocument == DocumentEntity(Title, TRUE, TRUE, FALSE)
DraftDocument == DocumentEntity(Title, TRUE, FALSE, FALSE)
ArchivedDocument == DocumentEntity(Title, TRUE, TRUE, TRUE)
NewDocument == DocumentEntity(HashPadded, FALSE, FALSE, FALSE)

ViewRoute == Route(FALSE, FALSE, FALSE, TRUE, FALSE, TRUE)
EditRoute == Route(TRUE, FALSE, FALSE, TRUE, FALSE, TRUE)

\* The scenes that are modelled: a route, the document it names and whether
\* documents.getByUrl finds the document in the store at construction.
Scenes ==
    { \* viewing a published document
      [props |-> ViewRoute, doc |-> PublishedDocument, cached |-> TRUE],
      \* the same under a path that is not the canonical one
      [props |-> Route(FALSE, FALSE, FALSE, TRUE, FALSE, FALSE),
       doc |-> PublishedDocument, cached |-> FALSE],
      \* viewing a revision
      [props |-> Route(FALSE, TRUE, FALSE, TRUE, FALSE, FALSE),
       doc |-> PublishedDocument, cached |-> FALSE],
      \* viewing through a share link, signed out
      [props |-> Route(FALSE, FALSE, TRUE, FALSE, FALSE, TRUE),
       doc |-> PublishedDocument, cached |-> FALSE],
      \* the move sub-route
      [props |-> Route(FALSE, FALSE, FALSE, TRUE, TRUE, FALSE),
       doc |-> PublishedDocument, cached |-> TRUE],
      \* the edit route of an archived document
      [props |-> EditRoute, doc |-> ArchivedDocument, cached |-> TRUE],
      \* editing a draft
      [props |-> EditRoute, doc |-> DraftDocument, cached |-> FALSE],
      \* a new document, which has no id yet
      [props |-> ViewRoute, doc |-> NewDocument, cached |-> TRUE] }

\* the options of onSave
SaveOptions == [done : BOOLEAN, publish : BOOLEAN, autosave : BOOLEAN]

SceneEvent(op, arg) == [op |-> op, arg |-> arg]

NoArg == [none |-> TRUE]

\* get isEditing
isEditing ==
    \/ props.editPath
    \/ (document # "none" /\ ~doc.hasId)

\* render shows the editor: no error, a document, and the scene is mounted
EditorShown ==
    /\ ~unmounted
    /\ ~error
    /\ document # "none"

\* Document.save, of models/Document: the entity is saving from the call
\* until the save settles
DocumentSaveCalled(d) == [d EXCEPT !.isSaving = TRUE]

DocumentSaveResolved(d, options) ==
    [d EXCEPT !.isSaving = FALSE,
              !.hasId = TRUE,
              !.published = @ \/ options.publish]

DocumentSaveRejected(d) == [d EXCEPT !.isSaving = FALSE]

\* a loadDocument call up to its first await
loadDocumentCall ==
    /\ loadsStarted' = loadsStarted + 1
    /\ loads' = Append(loads, [pc |-> "document", id |-> loadsStarted + 1,
                               document0 |-> document,
                               revision0 |-> revision])

\* the state after the constructor: this.document from the store's cache,
\* loadDocument at its first await
SceneInit ==
    /\ \E scene \in Scenes :
        /\ props = scene.props
        /\ doc = scene.doc
        /\ document = IF scene.cached THEN "doc" ELSE "none"
    /\ revision = "none"
    /\ isUploading = FALSE
    /\ isSaving = FALSE
    /\ isPublishing = FALSE
    /\ isDirty = FALSE
    /\ isEmpty = TRUE
    /\ error = FALSE
    /\ getEditorText = NoGetter
    /\ dirtyTimer = FALSE
    /\ autosaveTimer = FALSE
    /\ loadsStarted = 1
    /\ loads = <<[pc |-> "document", id |-> 1, document0 |-> document,
                  revision0 |-> "none"]>>
    /\ saves = <<>>
    /\ liveTimers = {}
    /\ viewTimeout = 0
    /\ unmounted = FALSE
    /\ nav = "none"
    /\ uiActive = FALSE
    /\ sev = SceneEvent("constructor", NoArg)

\* variant of componentDidUpdate: a reload clears the error of an earlier
\* load
SceneDidUpdate_ClearsError ==
    /\ ~unmounted
    /\ \E hasPolicy \in BOOLEAN :
        IF document # "none" /\ ~hasPolicy
        THEN /\ loadsStarted < MaxLoads
             /\ loadDocumentCall
             /\ error' = FALSE
        ELSE UNCHANGED <<loads, loadsStarted, error>>
    /\ sev' = SceneEvent("componentDidUpdate", NoArg)
    /\ UNCHANGED <<props, document, revision, isUploading, isSaving,
                   isPublishing, isDirty, isEmpty, doc, getEditorText,
                   dirtyTimer, autosaveTimer, saves, liveTimers, viewTimeout,
                   unmounted, nav, uiActive>>

\* componentDidUpdate; hasPolicy is whether policies.get(document.id) finds
\* a policy
SceneDidUpdate ==
    /\ ~unmounted
    /\ \E hasPolicy \in BOOLEAN :
        IF document # "none" /\ ~hasPolicy
        THEN /\ loadsStarted < MaxLoads
             /\ loadDocumentCall
        ELSE UNCHANGED <<loads, loadsStarted>>
    /\ sev' = SceneEvent("componentDidUpdate", NoArg)
    /\ UNCHANGED <<props, document, revision, isUploading, isSaving,
                   isPublishing, isDirty, isEmpty, error, doc, getEditorText,
                   dirtyTimer, autosaveTimer, saves, liveTimers, viewTimeout,
                   unmounted, nav, uiActive>>

componentWillUnmount ==
    /\ ~unmounted
    /\ unmounted' = TRUE
    /\ liveTimers' = liveTimers \ {viewTimeout}
    /\ sev' = SceneEvent("componentWillUnmount", NoArg)
    /\ UNCHANGED <<props, document, revision, isUploading, isSaving,
                   isPublishing, isDirty, isEmpty, error, doc, getEditorText,
                   dirtyTimer, autosaveTimer, loads, loadsStarted, saves,
                   viewTimeout, nav, uiActive>>

\* variant of loadDocumentRest: the redirect of an archived document that
\* is being edited is decided first, before the flags are reset and the
\* document is registered
loadDocumentRest_RedirectFirst(ld, rev) ==
    LET editing == props.editPath \/ ~doc.hasId
        tracked == props.user /\ ~props.shareId
    IN  /\ document' = "doc"
        /\ revision' = rev
        /\ IF doc.archived /\ editing
           THEN /\ nav' = "document.url"
                /\ UNCHANGED <<isDirty, isEmpty, uiActive, liveTimers,
                               viewTimeout>>
           ELSE /\ isDirty' = FALSE
                /\ isEmpty' = FALSE
                /\ uiActive' = TRUE
                /\ IF tracked /\ ~editing /\ doc.published
                   THEN /\ viewTimeout' = ld.id
                        /\ liveTimers' = liveTimers \cup {ld.id}
                   ELSE UNCHANGED <<liveTimers, viewTimeout>>
                /\ IF /\ tracked
                      /\ rev = "none"
                      /\ ~props.isMove
                      /\ ~props.canonical
                   THEN nav' = "replace canonicalUrl"
                   ELSE UNCHANGED nav

\* loadDocument from `this.isDirty = false` to its end, the document and
\* the revision being assigned; ld is the call, rev the revision field
loadDocumentRest(ld, rev) ==
    LET editing == props.editPath \/ ~doc.hasId
        tracked == props.user /\ ~props.shareId
    IN  /\ document' = "doc"
        /\ revision' = rev
        /\ isDirty' = FALSE
        /\ isEmpty' = FALSE
        /\ uiActive' = TRUE
        /\ IF doc.archived /\ editing
           THEN /\ nav' = "document.url"
                /\ UNCHANGED <<liveTimers, viewTimeout>>
           ELSE /\ IF tracked /\ ~editing /\ doc.published
                   THEN /\ viewTimeout' = ld.id
                        /\ liveTimers' = liveTimers \cup {ld.id}
                   ELSE UNCHANGED <<liveTimers, viewTimeout>>
                /\ IF /\ tracked
                      /\ rev = "none"
                      /\ ~props.isMove
                      /\ ~props.canonical
                   THEN nav' = "replace canonicalUrl"
                   ELSE UNCHANGED nav

\* documents.fetch resolved: the document is assigned, and either the
\* revision is fetched or loadDocument runs to its end
LoadDocumentFetched ==
    \E i \in 1..Len(loads) :
        /\ loads[i].pc = "document"
        /\ IF props.revisionId
           THEN /\ document' = "doc"
                /\ loads' = [loads EXCEPT ![i].pc = "revision"]
                /\ UNCHANGED <<revision, isDirty, isEmpty, uiActive, nav,
                               liveTimers, viewTimeout>>
           ELSE /\ loadDocumentRest(loads[i], "none")
                /\ loads' = RemoveAt(loads, i)
        /\ sev' = SceneEvent("loadDocument resumed", NoArg)
        /\ UNCHANGED <<props, isUploading, isSaving, isPublishing, error,
                       doc, getEditorText, dirtyTimer, autosaveTimer,
                       loadsStarted, saves, unmounted>>

\* revisions.fetch resolved
LoadRevisionFetched ==
    \E i \in 1..Len(loads) :
        /\ loads[i].pc = "revision"
        /\ loadDocumentRest(loads[i], "rev")
        /\ loads' = RemoveAt(loads, i)
        /\ sev' = SceneEvent("loadDocument resumed", NoArg)
        /\ UNCHANGED <<props, isUploading, isSaving, isPublishing, error,
                       doc, getEditorText, dirtyTimer, autosaveTimer,
                       loadsStarted, saves, unmounted>>

\* variant of loadDocumentCatch: the return is missing, the flags are reset
\* and the document is registered as after a successful load
loadDocumentCatch_NoReturn ==
    /\ error' = TRUE
    /\ isDirty' = FALSE
    /\ isEmpty' = FALSE
    /\ uiActive' = TRUE
    /\ UNCHANGED <<document, revision, nav, liveTimers, viewTimeout>>

\* the catch clause of loadDocument
loadDocumentCatch ==
    /\ error' = TRUE
    /\ UNCHANGED <<document, revision, isDirty, isEmpty, uiActive, nav,
                   liveTimers, viewTimeout>>

\* documents.fetch or revisions.fetch rejected
LoadThrows ==
    \E i \in 1..Len(loads) :
        /\ loadDocumentCatch
        /\ loads' = RemoveAt(loads, i)
        /\ sev' = SceneEvent("load threw", loads[i])
        /\ UNCHANGED <<props, isUploading, isSaving, isPublishing, doc,
                       getEditorText, dirtyTimer, autosaveTimer,
                       loadsStarted, saves, unmounted>>

\* the timer of setTimeout(document.view, MARK_AS_VIEWED_AFTER) expires
ViewTimerFires ==
    \E t \in liveTimers :
        /\ liveTimers' = liveTimers \ {t}
        /\ sev' = SceneEvent("document.view", NoArg)
        /\ UNCHANGED <<props, document, revision, isUploading, isSaving,
                       isPublishing, isDirty, isEmpty, error, doc,
                       getEditorText, dirtyTimer, autosaveTimer, loads,
                       loadsStarted, saves, viewTimeout, unmounted, nav,
                       uiActive>>

\* the latest version of the editor text value, as onSave gets it
CurrentText == IF getEditorText.set THEN getEditorText.text ELSE doc.text

\* what onSave does when none of its guards returns
onSaveProceeds(options, text) ==
    /\ Len(saves) < MaxSaves
    /\ doc' = DocumentSaveCalled([doc EXCEPT !.text = text])
    /\ isSaving' = TRUE
    /\ isPublishing' = options.publish
    /\ saves' = Append(saves, [options |-> options, isNew |-> ~doc.hasId])

\* variant of onSave: no look at document.isSaving
onSave_NoSavingGuard(options) ==
    LET text == CurrentText
    IN  IF \/ document = "none"
           \/ Trim(text) = Hash
           \/ (options.autosave /\ Trim(doc.text) = Trim(text))
        THEN UNCHANGED <<doc, isSaving, isPublishing, saves>>
        ELSE onSaveProceeds(options, text)

\* variant of onSave: the text is compared with '#' untrimmed
onSave_HashUntrimmed(options) ==
    LET text == CurrentText
    IN  IF \/ document = "none"
           \/ doc.isSaving
           \/ text = Hash
           \/ (options.autosave /\ Trim(doc.text) = Trim(text))
        THEN UNCHANGED <<doc, isSaving, isPublishing, saves>>
        ELSE onSaveProceeds(options, text)

\* variant of onSave: the unchanged-text check compares untrimmed texts
onSave_AutosaveUntrimmed(options) ==
    LET text == CurrentText
    IN  IF \/ document = "none"
           \/ doc.isSaving
           \/ Trim(text) = Hash
           \/ (options.autosave /\ doc.text = text)
        THEN UNCHANGED <<doc, isSaving, isPublishing, saves>>
        ELSE onSaveProceeds(options, text)

\* onSave(options) up to `await document.save(options)`
onSave(options) ==
    LET text == CurrentText
    IN  IF \/ document = "none"
           \/ doc.isSaving
           \/ Trim(text) = Hash
           \/ (options.autosave /\ Trim(doc.text) = Trim(text))
        THEN UNCHANGED <<doc, isSaving, isPublishing, saves>>
        ELSE onSaveProceeds(options, text)

\* the editor's or the header's onSave: a save that is not an autosave
ExplicitSave ==
    /\ EditorShown
    /\ \E done \in BOOLEAN, publish \in BOOLEAN :
        LET options ==
              [done |-> done, publish |-> publish, autosave |-> FALSE]
        IN  /\ onSave(options)
            /\ sev' = SceneEvent("onSave", options)
    /\ UNCHANGED <<props, document, revision, isUploading, isDirty, isEmpty,
                   error, getEditorText, dirtyTimer, autosaveTimer, loads,
                   loadsStarted, liveTimers, viewTimeout, unmounted, nav,
                   uiActive>>

\* the meta+shift+p shortcut
onPublish ==
    /\ ~unmounted
    /\ LET options == [done |-> TRUE, publish |-> TRUE, autosave |-> FALSE]
       IN  IF document = "none" \/ doc.published
           THEN /\ UNCHANGED <<doc, isSaving, isPublishing, saves>>
                /\ sev' = SceneEvent("onPublish", NoArg)
           ELSE /\ onSave(options)
                /\ sev' = SceneEvent("onSave", options)
    /\ UNCHANGED <<props, document, revision, isUploading, isDirty, isEmpty,
                   error, getEditorText, dirtyTimer, autosaveTimer, loads,
                   loadsStarted, liveTimers, viewTimeout, unmounted, nav,
                   uiActive>>

\* variant of AutosaveFires: the autosave does not wait for the quiet
\* period of the latest change
AutosaveFires_Leading ==
    /\ autosaveTimer
    /\ autosaveTimer' = FALSE
    /\ LET options == [done |-> FALSE, publish |-> FALSE, autosave |-> TRUE]
       IN  /\ onSave(options)
           /\ sev' = SceneEvent("onSave", options)
    /\ UNCHANGED <<props, document, revision, isUploading, isDirty, isEmpty,
                   error, getEditorText, dirtyTimer, loads, loadsStarted,
                   liveTimers, viewTimeout, unmounted, nav, uiActive>>

\* the debounced autosave runs. Both debounced functions are restarted by
\* the same onChange calls, so the one with the shorter delay runs first.
AutosaveFires ==
    /\ autosaveTimer
    /\ dirtyTimer => AUTOSAVE_DELAY < IS_DIRTY_DELAY
    /\ autosaveTimer' = FALSE
    /\ LET options == [done |-> FALSE, publish |-> FALSE, autosave |-> TRUE]
       IN  /\ onSave(options)
           /\ sev' = SceneEvent("onSave", options)
    /\ UNCHANGED <<props, document, revision, isUploading, isDirty, isEmpty,
                   error, getEditorText, dirtyTimer, loads, loadsStarted,
                   liveTimers, viewTimeout, unmounted, nav, uiActive>>

\* the body of the debounced updateIsDirty
updateIsDirty ==
    LET editorText == Trim(getEditorText.text)
    IN  /\ isEmpty' = (editorText = Hash)
        /\ isDirty' = (document # "none" /\ editorText # Trim(doc.text))

\* the debounced updateIsDirty runs
IsDirtyFires ==
    /\ dirtyTimer
    /\ autosaveTimer => IS_DIRTY_DELAY <= AUTOSAVE_DELAY
    /\ dirtyTimer' = FALSE
    /\ updateIsDirty
    /\ sev' = SceneEvent("updateIsDirty", NoArg)
    /\ UNCHANGED <<props, document, revision, isUploading, isSaving,
                   isPublishing, error, doc, getEditorText, autosaveTimer,
                   loads, loadsStarted, saves, liveTimers, viewTimeout,
                   unmounted, nav, uiActive>>

\* the editor reports a change; it is editable while the scene is editing
\* a document that is not archived
onChange ==
    /\ EditorShown
    /\ isEditing
    /\ ~doc.archived
    /\ \E text \in EditorTexts :
        /\ getEditorText' = Getter(text)
        /\ sev' = SceneEvent("onChange", NoArg)
    /\ dirtyTimer' = TRUE
    /\ autosaveTimer' = TRUE
    /\ UNCHANGED <<props, document, revision, isUploading, isSaving,
                   isPublishing, isDirty, isEmpty, error, doc, loads,
                   loadsStarted, saves, liveTimers, viewTimeout, unmounted,
                   nav, uiActive>>

\* variant of onSaveResolved: the first save of a new document does not
\* navigate unless it is a done save
onSaveResolved_IgnoresIsNew(sv) ==
    /\ doc' = DocumentSaveResolved(doc, sv.options)
    /\ isDirty' = FALSE
    /\ isSaving' = FALSE
    /\ isPublishing' = FALSE
    /\ IF sv.options.done
       THEN /\ nav' = "document.url"
            /\ uiActive' = TRUE
       ELSE UNCHANGED <<nav, uiActive>>

\* onSave after `await document.save(options)` resolved
onSaveResolved(sv) ==
    /\ doc' = DocumentSaveResolved(doc, sv.options)
    /\ isDirty' = FALSE
    /\ isSaving' = FALSE
    /\ isPublishing' = FALSE
    /\ IF sv.options.done
       THEN /\ nav' = "document.url"
            /\ uiActive' = TRUE
       ELSE IF sv.isNew
            THEN /\ nav' = "documentEditUrl"
                 /\ uiActive' = TRUE
            ELSE UNCHANGED <<nav, uiActive>>

SaveResolved ==
    \E i \in 1..Len(saves) :
        /\ onSaveResolved(saves[i])
        /\ saves' = RemoveAt(saves, i)
        /\ sev' = SceneEvent("save resolved", NoArg)
        /\ UNCHANGED <<props, document, revision, isUploading, isEmpty,
                       error, getEditorText, dirtyTimer, autosaveTimer,
                       loads, loadsStarted, liveTimers, viewTimeout,
                       unmounted>>

\* document.save rejected: the await throws and the rest of onSave is
\* skipped
SaveRejected ==
    \E i \in 1..Len(saves) :
        /\ doc' = DocumentSaveRejected(doc)
        /\ saves' = RemoveAt(saves, i)
        /\ sev' = SceneEvent("save rejected", NoArg)
        /\ UNCHANGED <<props, document, revision, isUploading, isSaving,
                       isPublishing, isDirty, isEmpty, error, getEditorText,
                       dirtyTimer, autosaveTimer, loads, loadsStarted,
                       liveTimers, viewTimeout, unmounted, nav, uiActive>>

\* The two upload handlers assign isUploading and nothing else, and no
\* handler reads it (render does, for the leave prompts).
onImageUploadStart ==
    /\ EditorShown
    /\ isEditing
    /\ ~doc.archived
    /\ isUploading' = TRUE
    /\ sev' = SceneEvent("onImageUploadStart", NoArg)
    /\ UNCHANGED <<props, document, revision, isSaving, isPublishing,
                   isDirty, isEmpty, error, doc, getEditorText, dirtyTimer,
                   autosaveTimer, loads, loadsStarted, saves, liveTimers,
                   viewTimeout, unmounted, nav, uiActive>>

onImageUploadStop ==
    /\ isUploading
    /\ isUploading' = FALSE
    /\ sev' = SceneEvent("onImageUploadStop", NoArg)
    /\ UNCHANGED <<props, document, revision, isSaving, isPublishing,
                   isDirty, isEmpty, error, doc, getEditorText, dirtyTimer,
                   autosaveTimer, loads, loadsStarted, saves, liveTimers,
                   viewTimeout, unmounted, nav, uiActive>>

\* render, in edit mode: the `when` of the two Prompt elements
PromptDiscardChanges == isDirty /\ ~isUploading

PromptUploading == isUploading /\ ~isDirty

----------------------------------------------------------------------------
(* Specifications: each component on its own, the other one at rest.       *)
(* SceneSpec follows loading, editing, saving and teardown; the upload     *)
(* handlers, which are independent of all of these, are not among its      *)
(* steps.                                                                  *)

LoaderAtRest ==
    /\ LoaderInit
    /\ fetchProp = "fetchA"

SceneAtRest ==
    /\ SceneInit
    /\ props = ViewRoute
    /\ doc = NewDocument

LoaderSpecInit ==
    /\ LoaderInit
    /\ SceneAtRest

LoaderNext ==
    \/ componentDidMount /\ UNCHANGED sceneVars
    \/ componentDidUpdate /\ UNCHANGED sceneVars
    \/ loadMoreResults /\ UNCHANGED sceneVars
    \/ FetchResolved /\ UNCHANGED sceneVars
    \/ FetchRejected /\ UNCHANGED sceneVars

LoaderSpec == LoaderSpecInit /\ [][LoaderNext]_vars

SceneSpecInit ==
    /\ SceneInit
    /\ LoaderAtRest

SceneNext ==
    \/ SceneDidUpdate /\ UNCHANGED loaderVars
    \/ componentWillUnmount /\ UNCHANGED loaderVars
    \/ LoadDocumentFetched /\ UNCHANGED loaderVars
    \/ LoadRevisionFetched /\ UNCHANGED loaderVars
    \/ LoadThrows /\ UNCHANGED loaderVars
    \/ ViewTimerFires /\ UNCHANGED loaderVars
    \/ onChange /\ UNCHANGED loaderVars
    \/ IsDirtyFires /\ UNCHANGED loaderVars
    \/ AutosaveFires /\ UNCHANGED loaderVars
    \/ ExplicitSave /\ UNCHANGED loaderVars
    \/ onPublish /\ UNCHANGED loaderVars
    \/ SaveResolved /\ UNCHANGED loaderVars
    \/ SaveRejected /\ UNCHANGED loaderVars

SceneSpec == SceneSpecInit /\ [][SceneNext]_vars

\* The scenes of the specification with fairness: viewing a revision and
\* editing a draft.
DebounceScenes ==
    { [props |-> Route(FALSE, TRUE, FALSE, TRUE, FALSE, FALSE),
       doc |-> PublishedDocument],
      [props |-> EditRoute, doc |-> DraftDocument] }

DebounceSpecInit ==
    /\ SceneSpecInit
    /\ \E scene \in DebounceScenes :
        /\ props = scene.props
        /\ doc = scene.doc

\* A timer that is due fires: the two debounced functions run once their
\* delay has passed without a further call.
DebounceSpec ==
    /\ DebounceSpecInit
    /\ [][SceneNext]_vars
    /\ WF_vars(IsDirtyFires /\ UNCHANGED loaderVars)
    /\ WF_vars(AutosaveFires /\ UNCHANGED loaderVars)

\* The scene with the upload handlers of the editor among its steps.
UploadNext ==
    \/ SceneNext
    \/ onImageUploadStart /\ UNCHANGED loaderVars
    \/ onImageUploadStop /\ UNCHANGED loaderVars

UploadSpec == DebounceSpecInit /\ [][UploadNext]_vars

----------------------------------------------------------------------------
(* Properties of PaginatedDocumentList *)

\* C1: a fetch completion with exactly DEFAULT_PAGINATION_LIMIT items adds
\* DEFAULT_PAGINATION_LIMIT to offset and does not touch allowLoadMore (it
\* remains true); a completion with fewer items (0 included) sets
\* allowLoadMore to false and leaves offset alone; and a false allowLoadMore
\* is false after every step, whatever the step is.
C1_FetchCompletion ==
    [][/\ (/\ lev'.op = "resolve"
           /\ lev'.kind = "page"
           /\ lev'.len = DEFAULT_PAGINATION_LIMIT)
          => /\ offset' = offset + DEFAULT_PAGINATION_LIMIT
             /\ allowLoadMore' = allowLoadMore
       /\ (/\ lev'.op = "resolve"
           /\ lev'.kind = "page"
           /\ lev'.len < DEFAULT_PAGINATION_LIMIT)
          => /\ allowLoadMore' = FALSE
             /\ offset' = offset
       /\ ~allowLoadMore => ~allowLoadMore'
    ]_vars

\* a short page has just arrived after one full page
C1_Witness ==
    /\ lev.op = "resolve"
    /\ lev.kind = "page"
    /\ lev.len = 1
    /\ offset = DEFAULT_PAGINATION_LIMIT
    /\ fullPages = 1
    /\ ~allowLoadMore

\* C2: a loadMoreResults call made while isFetching is true or allowLoadMore
\* is false calls props.fetch not at all and leaves offset, allowLoadMore,
\* isFetching and isLoaded as they are; in any other state it calls
\* props.fetch exactly once, with the current offset.
C2_LoadMoreGuard ==
    [][lev'.op = "loadMore" =>
         IF isFetching \/ ~allowLoadMore
         THEN /\ pending' = pending
              /\ UNCHANGED <<offset, allowLoadMore, isFetching, isLoaded>>
         ELSE pending' =
                Append(pending, [fn |-> fetchProp, offset |-> offset])
    ]_vars

\* loadMoreResults was called after the end of the data, with no fetch
\* outstanding, and nothing was dispatched
C2_Witness ==
    /\ lev.op = "loadMore"
    /\ ~allowLoadMore
    /\ ~isFetching
    /\ pending = <<>>
    /\ offset = DEFAULT_PAGINATION_LIMIT

\* C3: at most one call of props.fetch is outstanding at any time, and
\* isFetching is true exactly while one is outstanding.
C3_OneFetchOutstanding ==
    /\ Len(pending) <= 1
    /\ isFetching <=> (pending # <<>>)

\* C4: the fetch dispatched when the fetch prop changes asks for offset 0
\* of the new function, and allowLoadMore is true again.
C4_PropChangeResets ==
    [][(lev'.op = "update" /\ fetchProp' # fetchProp) =>
         /\ Len(pending') = Len(pending) + 1
         /\ pending'[Len(pending')] = [fn |-> fetchProp', offset |-> 0]
         /\ allowLoadMore'
    ]_vars

\* C5: offset changes only in the completion of a fetch that resolved with
\* a page of exactly DEFAULT_PAGINATION_LIMIT items, so offset is always
\* DEFAULT_PAGINATION_LIMIT times the number of such completions.
C5_OffsetOnlyOnFullPage ==
    [][/\ offset' # offset =>
            /\ lev'.op = "resolve"
            /\ lev'.kind = "page"
            /\ lev'.len = DEFAULT_PAGINATION_LIMIT
       /\ offset' = DEFAULT_PAGINATION_LIMIT * fullPages'
    ]_vars

----------------------------------------------------------------------------
(* Properties of DocumentScene *)

\* the scene fields an onSave call that returns early must leave alone
SaveState ==
    <<saves, doc, isSaving, isPublishing, isDirty, isEmpty, isUploading,
      error, document, revision, nav, uiActive>>

\* C6: at most one document.save called by onSave is outstanding at any
\* time, and an onSave call that arrives while one is outstanding calls
\* document.save not at all and changes neither the document text nor any
\* flag of the scene.
C6_OneSaveInFlight ==
    [][/\ Len(saves') <= 1
       /\ (sev'.op = "onSave" /\ saves # <<>>) => UNCHANGED SaveState
    ]_vars

\* an autosave arrived while an explicit save was outstanding, and was
\* refused
C6_Witness ==
    /\ sev.op = "onSave"
    /\ sev.arg.autosave
    /\ Len(saves) = 1
    /\ ~saves[1].options.autosave
    /\ CurrentText # doc.text

\* C7: an onSave call made while the trimmed editor text is '#' calls
\* document.save not at all, does not assign document.text, leaves
\* isSaving, isPublishing and isDirty as they are and navigates nowhere,
\* whatever its options are.
C7_HashNeverSaved ==
    [][(sev'.op = "onSave" /\ Trim(CurrentText) = Hash)
         => UNCHANGED SaveState
    ]_vars

\* an explicit save of a padded '#' was refused with a document loaded and
\* no save outstanding
C7_Witness ==
    /\ sev.op = "onSave"
    /\ ~sev.arg.autosave
    /\ document = "doc"
    /\ saves = <<>>
    /\ ~doc.isSaving
    /\ CurrentText # Hash
    /\ Trim(CurrentText) = Hash

\* C8: an autosave whose trimmed editor text equals the trimmed
\* document.text calls document.save not at all and changes no state of the
\* scene; an explicit save with the same unchanged text, no save being
\* outstanding and the text not being '#', does call document.save.
C8_AutosaveOnlyWhenChanged ==
    [][(sev'.op = "onSave" /\ Trim(CurrentText) = Trim(doc.text)) =>
         /\ sev'.arg.autosave => UNCHANGED SaveState
         /\ (/\ ~sev'.arg.autosave
             /\ document # "none"
             /\ saves = <<>>
             /\ Trim(CurrentText) # Hash)
            => saves' = <<[options |-> sev'.arg, isNew |-> ~doc.hasId]>>
    ]_vars

\* an autosave was suppressed although the editor text differs from
\* document.text, because the two are equal once trimmed
C8_Witness ==
    /\ sev.op = "onSave"
    /\ sev.arg.autosave
    /\ document = "doc"
    /\ saves = <<>>
    /\ ~doc.isSaving
    /\ getEditorText.set
    /\ getEditorText.text # doc.text
    /\ Trim(getEditorText.text) = Trim(doc.text)
    /\ Trim(getEditorText.text) # Hash

\* C9: in every state where no dirty check is pending, isDirty equals
\* (trimmed editor text differs from trimmed document.text).
C9_DirtyIffTextDiffers ==
    ~dirtyTimer => (isDirty <=> Trim(CurrentText) # Trim(doc.text))

\* C10 as claimed: a load that throws sets error, and document and
\* revision hold the values they had when that load started; no further
\* action of the load is performed.
C10_FailedLoadChangesNothing ==
    [][sev'.op = "load threw" =>
         /\ error'
         /\ document' = sev'.arg.document0
         /\ revision' = sev'.arg.revision0
         /\ UNCHANGED <<isDirty, isEmpty, uiActive, nav, liveTimers,
                        viewTimeout>>
    ]_vars

\* C10 as amended: a load that throws sets error and performs no further
\* action, and the throw itself changes neither document nor revision.
\* The revision field holds the value it had when the load started; the
\* document field does so when the document fetch threw, and holds the
\* document this load fetched and assigned when the revision fetch threw
\* (compared for a load that no other load ran beside).
C10_FailedLoadStops ==
    [][sev'.op = "load threw" =>
         /\ error'
         /\ UNCHANGED <<document, revision, isDirty, isEmpty, uiActive, nav,
                        liveTimers, viewTimeout>>
         /\ sev'.arg.pc = "revision" => document' = "doc"
         /\ loadsStarted = 1 =>
              /\ revision' = sev'.arg.revision0
              /\ sev'.arg.pc = "document" => document' = sev'.arg.document0
    ]_vars

\* the revision fetch of the first load threw after the document, which the
\* store did not hold before, had been assigned
C10_Witness ==
    /\ sev.op = "load threw"
    /\ sev.arg.pc = "revision"
    /\ sev.arg.document0 = "none"
    /\ document = "doc"
    /\ revision = "none"
    /\ error
    /\ isEmpty
    /\ ~uiActive

\* C11: an onSave call that passes the guards sets isSaving and sets
\* isPublishing to the publish option before document.save is called; when
\* document.save resolves isDirty, isSaving and isPublishing are false; and
\* every save that started has reached that state once its document.save
\* has settled.
C11_SaveLifecycle ==
    [][/\ (sev'.op = "onSave" /\ Len(saves') > Len(saves))
          => /\ isSaving'
             /\ isPublishing' = sev'.arg.publish
       /\ sev'.op = "save resolved"
          => (~isDirty' /\ ~isSaving' /\ ~isPublishing')
       /\ Len(saves') < Len(saves)
          => (~isDirty' /\ ~isSaving' /\ ~isPublishing')
    ]_vars

\* C12 as claimed: when a save resolves, the scene navigates to the
\* document's URL and registers the document as active if the save was a
\* done save or the document had no id before; otherwise it does neither.
C12_NavigatesToDocumentUrl ==
    [][(sev'.op = "save resolved" /\ Len(saves) = 1) =>
         IF saves[1].options.done \/ saves[1].isNew
         THEN /\ nav' = "document.url"
              /\ uiActive'
         ELSE UNCHANGED <<nav, uiActive>>
    ]_vars

\* C12 as amended: a done save navigates to the document's URL; a save
\* that is not done, of a document that had no id before, navigates to the
\* document's edit URL; both register the document as active; any other
\* save neither navigates nor registers.
C12_NavigationAfterSave ==
    [][(sev'.op = "save resolved" /\ Len(saves) = 1) =>
         IF saves[1].options.done
         THEN /\ nav' = "document.url"
              /\ uiActive'
         ELSE IF saves[1].isNew
              THEN /\ nav' = "documentEditUrl"
                   /\ uiActive'
              ELSE UNCHANGED <<nav, uiActive>>
    ]_vars

\* the first save of a new document, an autosave, has resolved and the
\* scene went to the edit URL of the document, which now has an id
C12_Witness ==
    /\ sev.op = "save resolved"
    /\ nav = "documentEditUrl"
    /\ uiActive
    /\ doc.hasId
    /\ saves = <<>>
    /\ ~isSaving

\* C13: once componentWillUnmount has run, no timer of the scene calls
\* document.view.
C13_NoViewAfterUnmount ==
    sev.op = "document.view" => ~unmounted

\* C14: the debounced dirty check and the debounced autosave coalesce a
\* burst of onChange calls into one trailing run each. Every onChange
\* leaves both calls pending and only onChange does; a debounced function
\* runs only when its call is pending, the run ends the pending call and
\* nothing else ends it, so between two runs there is an onChange; the
\* autosave does not run while the dirty check of a newer change is still
\* pending; a pending dirty check eventually runs, and a pending autosave
\* eventually runs unless a further change restarts it.
C14_DebounceCoalesces ==
    /\ [][/\ sev'.op = "onChange" => (dirtyTimer' /\ autosaveTimer')
          /\ ((dirtyTimer' /\ ~dirtyTimer) \/ (autosaveTimer' /\ ~autosaveTimer))
             => sev'.op = "onChange"
          /\ sev'.op = "updateIsDirty" => (dirtyTimer /\ ~dirtyTimer')
          /\ (dirtyTimer /\ ~dirtyTimer') => sev'.op = "updateIsDirty"
          /\ (sev'.op = "onSave" /\ sev'.arg.autosave)
             => (autosaveTimer /\ ~autosaveTimer' /\ ~dirtyTimer)
          /\ (autosaveTimer /\ ~autosaveTimer')
             => (sev'.op = "onSave" /\ sev'.arg.autosave)
       ]_vars
    /\ (dirtyTimer \/ autosaveTimer)
         ~> ((~dirtyTimer /\ ~autosaveTimer) \/ sev.op = "onChange")

\* after a change both debounced functions have run, the dirty check
\* first, and the autosave has started a save
C14_Witness ==
    /\ sev.op = "onSave"
    /\ sev.arg.autosave
    /\ ~dirtyTimer
    /\ ~autosaveTimer
    /\ isDirty
    /\ Len(saves) = 1

\* C15: a load that runs to its end without a throw leaves isDirty and
\* isEmpty false and the loaded document registered as the active one,
\* whether or not it goes on to redirect; a load that throws leaves
\* isDirty and isEmpty as they were.
C15_LoadResetsFlags ==
    [][/\ (sev'.op = "loadDocument resumed" /\ Len(loads') < Len(loads))
          => /\ ~isDirty'
             /\ ~isEmpty'
             /\ uiActive'
             /\ document' = "doc"
       /\ sev'.op = "load threw" => UNCHANGED <<isDirty, isEmpty>>
    ]_vars

\* the load of an archived document on the edit route has ended with the
\* redirect to the document's URL, the flags reset and the document
\* registered
C15_Witness ==
    /\ sev.op = "loadDocument resumed"
    /\ loads = <<>>
    /\ doc.archived
    /\ nav = "document.url"
    /\ ~isDirty
    /\ ~isEmpty
    /\ uiActive

\* C16: whenever a document is loaded (no load outstanding, no error), the
\* editor has reported its text and no dirty check is pending, isEmpty is
\* true exactly when the trimmed editor text is "#".
C16_EmptyIffHash ==
    (/\ document # "none"
     /\ loads = <<>>
     /\ ~error
     /\ getEditorText.set
     /\ ~dirtyTimer)
        => (isEmpty <=> (Trim(getEditorText.text) = Hash))

\* C17: an edit is never silently left unsaved. In every quiescent state
\* (no save and no load outstanding, neither debounced call pending) of a
\* scene that shows a document whose editor text can be saved, if the
\* trimmed editor text differs from the trimmed document.text then isDirty
\* is true.
C17_NoSilentlyUnsavedEdit ==
    (/\ saves = <<>>
     /\ loads = <<>>
     /\ ~dirtyTimer
     /\ ~autosaveTimer
     /\ document # "none"
     /\ ~error
     /\ Trim(CurrentText) # Hash
     /\ Trim(CurrentText) # Trim(doc.text))
        => isDirty

\* C18: while the scene shows the editor in edit mode, one of the two leave
\* prompts is active in every state where isDirty or isUploading is true,
\* also when both are.
C18_LeaveGuarded ==
    (EditorShown /\ isEditing /\ (isDirty \/ isUploading))
        => (PromptDiscardChanges \/ PromptUploading)

\* C19: the loader never gets stuck: once every dispatched fetch has
\* settled, by resolving or by rejecting, isFetching is false again.
C19_FetchingOnlyWhileOutstanding ==
    pending = <<>> => ~isFetching

\* C20: the error of a failed load is absorbing. No step clears error, not
\* even a later load that succeeds and assigns the document; while it is
\* set render shows the error view, so the editor reports no change; and
\* the failing load starts no retry.
C20_ErrorAbsorbing ==
    [][/\ error => error'
       /\ error => (~EditorShown' /\ sev'.op # "onChange")
       /\ sev'.op = "load threw"
          => /\ error'
             /\ loadsStarted' = loadsStarted
             /\ Len(loads') = Len(loads) - 1
    ]_vars

\* after a load that threw, a reload started by componentDidUpdate has
\* succeeded and assigned the document, and error is still set
C20_Witness ==
    /\ error
    /\ sev.op = "loadDocument resumed"
    /\ loads = <<>>
    /\ loadsStarted = 2
    /\ document = "doc"
    /\ ~EditorShown

====
